---- MODULE Spec2Model ----
(***************************************************************************)
(* PNG container model of lib/rust/png: Png::new (parse), Chunk::new,      *)
(* Png::save_to_file (serialize) and create_png_from_deflated_data /       *)
(* create_png_from_boxed_defalted_data (file assembly).                    *)
(* Bytes are integers 0..255, buffers are sequences of bytes, and Rust     *)
(* slices data[a .. b] are 0-based and half-open.                          *)
(***************************************************************************)
EXTENDS Integers, Sequences, FiniteSets, TLC

VARIABLES pc, input, layout, cut, index, head, signature, png, origin,
          file, saveResult, crcCalls, args, query

vars == <<pc, input, layout, cut, index, head, signature, png, origin,
          file, saveResult, crcCalls, args, query>>

(***************************************************************************)
(* Bounds of the model.                                                    *)
(***************************************************************************)
\* longest data field of a chunk of an input buffer
MaxDataLen == 1
\* most bytes cut off the end of an input buffer
MaxCut == 13
\* longest compressed payload handed to file assembly
MaxPayload == 5
\* largest width and height of the IHDR chunks of input buffers and of the
\* scanline buffers handed to unfiltering
MaxWidth == 2
MaxHeight == 2
\* widths and heights from here on are only known to be at least this much
\* (more than any buffer of the model has bytes)
MaxExactDim == 256

(***************************************************************************)
(* constants.rs                                                            *)
(***************************************************************************)
LENGTH_OF_SIGNATURE == 8
LENGTH_OF_LENGTH_FIELD == 4
LENGTH_OF_TYPE_FIELD == 4
LENGTH_OF_CRC_FIELD == 4
LENGTH_OF_THREE_FIELDS == LENGTH_OF_LENGTH_FIELD + LENGTH_OF_TYPE_FIELD + LENGTH_OF_CRC_FIELD
PNG_SIGNATURE == <<137, 80, 78, 71, 13, 10, 26, 10>>
PNG_IHDR_TYPE_SIGNATURE == <<73, 72, 68, 82>>
LENGTH_OF_IHDR_DATA == <<0, 0, 0, 13>>
IHDR_DATA_FOR_UNCOMPRESSED_FILE == <<8, 2, 0, 0, 0>>
LENGTH_OF_IEND_DATA == <<0, 0, 0, 0>>
PNG_IEND_TYPE_SIGNATURE == <<73, 69, 78, 68>>
PNG_IDAT_TYPE_SIGNATURE == <<73, 68, 65, 84>>

(***************************************************************************)
(* Integer helpers: u32 arithmetic and byte order.                         *)
(***************************************************************************)
\* A u32 is the pair <<high 16 bits, low 16 bits>>, so that values up to
\* 0xFFFFFFFF are held exactly.
u32(n) == <<n \div 65536, n % 65536>>

\* `as usize` of a u32 (usize is 64 bits wide: nothing is lost)
as_usize(v) == v[1] * 65536 + v[2]

\* wrapping u32 addition
wrapping_add(v, w) ==
    << (v[1] + w[1] + ((v[2] + w[2]) \div 65536)) % 65536, (v[2] + w[2]) % 65536 >>

\* data[a .. b] of Rust: the bytes at 0-based offsets a .. b-1
Slice(data, a, b) == SubSeq(data, a + 1, b)

\* data[a .. b] panics unless a <= b <= data.len()
SliceInBounds(data, a, b) == a <= b /\ b <= Len(data)

\* the native big_endian_read_u32 (lib/rust/C/sundry.c): the u32 whose
\* big-endian bytes are the four bytes at the pointer
big_endian_read_u32(p) == <<p[1] * 256 + p[2], p[3] * 256 + p[4]>>

\* u32::to_be_bytes
to_be_bytes(v) == << v[1] \div 256, v[1] % 256, v[2] \div 256, v[2] % 256 >>

\* std::str::from_utf8 on a 4-byte type field: Ok exactly for well-formed
\* UTF-8. u(i) is byte i, cont(i) says byte i is a continuation byte.
IsUtf8(b) ==
    LET n == Len(b)
        cont(i) == i <= n /\ b[i] >= 128 /\ b[i] <= 191
        RECURSIVE ok(_)
        ok(i) ==
            IF i > n THEN TRUE
            ELSE IF b[i] < 128 THEN ok(i + 1)
            ELSE IF b[i] >= 194 /\ b[i] <= 223 THEN cont(i + 1) /\ ok(i + 2)
            ELSE IF b[i] = 224
                 THEN i + 1 <= n /\ b[i + 1] >= 160 /\ b[i + 1] <= 191
                      /\ cont(i + 2) /\ ok(i + 3)
            ELSE IF b[i] = 237
                 THEN i + 1 <= n /\ b[i + 1] >= 128 /\ b[i + 1] <= 159
                      /\ cont(i + 2) /\ ok(i + 3)
            ELSE IF b[i] >= 225 /\ b[i] <= 239
                 THEN cont(i + 1) /\ cont(i + 2) /\ ok(i + 3)
            ELSE IF b[i] = 240
                 THEN i + 1 <= n /\ b[i + 1] >= 144 /\ b[i + 1] <= 191
                      /\ cont(i + 2) /\ cont(i + 3) /\ ok(i + 4)
            ELSE IF b[i] >= 241 /\ b[i] <= 243
                 THEN cont(i + 1) /\ cont(i + 2) /\ cont(i + 3) /\ ok(i + 4)
            ELSE IF b[i] = 244
                 THEN i + 1 <= n /\ b[i + 1] >= 128 /\ b[i + 1] <= 143
                      /\ cont(i + 2) /\ cont(i + 3) /\ ok(i + 4)
            ELSE FALSE
    IN ok(1)

(***************************************************************************)
(* Chunk                                                                   *)
(***************************************************************************)
\* Chunk::new taking everything after the type field as data
Chunk_new_DataToEnd(data) ==
    IF Len(data) > 0
    THEN [ length    |-> Slice(data, 0, 4),
           type_name |-> Slice(data, 4, 8),
           data      |-> Slice(data, 8, Len(data)),
           crc       |-> Slice(data, as_usize(big_endian_read_u32(Slice(data, 0, 4))) + 8,
                                     as_usize(big_endian_read_u32(Slice(data, 0, 4))) + 4 + 8) ]
    ELSE [ length |-> <<>>, type_name |-> <<>>, data |-> <<>>, crc |-> <<>> ]

\* Chunk::new on a slice holding one framed chunk
Chunk_new(data) ==
    IF Len(data) > 0
    THEN [ length    |-> Slice(data, 0, 4),
           type_name |-> Slice(data, 4, 8),
           data      |-> Slice(data, 8, as_usize(big_endian_read_u32(Slice(data, 0, 4))) + 8),
           crc       |-> Slice(data, as_usize(big_endian_read_u32(Slice(data, 0, 4))) + 8,
                                     as_usize(big_endian_read_u32(Slice(data, 0, 4))) + 4 + 8) ]
    ELSE [ length |-> <<>>, type_name |-> <<>>, data |-> <<>>, crc |-> <<>> ]

\* Chunk::new panics when one of its four slices leaves the vector
Chunk_new_panics(data) ==
    /\ Len(data) > 0
    /\ \/ ~SliceInBounds(data, 0, 4)
       \/ ~SliceInBounds(data, 4, 8)
       \/ ~SliceInBounds(data, 8, as_usize(big_endian_read_u32(Slice(data, 0, 4))) + 8)
       \/ ~SliceInBounds(data, as_usize(big_endian_read_u32(Slice(data, 0, 4))) + 8,
                               as_usize(big_endian_read_u32(Slice(data, 0, 4))) + 4 + 8)

get_length(chunk) == big_endian_read_u32(chunk.length)
get_crc(chunk) == big_endian_read_u32(chunk.crc)
get_data(chunk) == chunk.data

\* get_type_name unwraps from_utf8: it panics on a type that is not UTF-8
get_type_name_panics(chunk) == ~IsUtf8(chunk.type_name)
get_type_name(chunk) == chunk.type_name

(***************************************************************************)
(* Png::new, one loop iteration at a time                                  *)
(***************************************************************************)
\* the end of the slice handed to Chunk::new for the chunk at index
ChunkSliceEnd(data, idx) ==
    idx + LENGTH_OF_LENGTH_FIELD + LENGTH_OF_TYPE_FIELD
        + as_usize(big_endian_read_u32(Slice(data, idx, idx + 4))) + LENGTH_OF_CRC_FIELD

\* the iteration at index panics: data[index .. index + 4] or the chunk's
\* slice leaves the buffer, or Chunk::new panics on the slice
IterationPanics(data, idx) ==
    \/ ~SliceInBounds(data, idx, idx + 4)
    \/ ~SliceInBounds(data, idx, ChunkSliceEnd(data, idx))
    \/ Chunk_new_panics(Slice(data, idx, ChunkSliceEnd(data, idx)))

IterationChunk(data, idx) == Chunk_new(Slice(data, idx, ChunkSliceEnd(data, idx)))

\* the next index with the CRC field not counted
IterationNextIndex_NoCrcField(data, idx) ==
    idx + LENGTH_OF_LENGTH_FIELD + LENGTH_OF_TYPE_FIELD
        + as_usize(big_endian_read_u32(Slice(data, idx, idx + 4)))

IterationNextIndex(data, idx) ==
    idx + LENGTH_OF_LENGTH_FIELD + LENGTH_OF_TYPE_FIELD
        + as_usize(big_endian_read_u32(Slice(data, idx, idx + 4))) + LENGTH_OF_CRC_FIELD

NoPng == [none |-> TRUE]
Panic == [panic |-> TRUE]

\* the length check against the length of a length field
HasSignatureBytes_LengthField(data) == Len(data) >= LENGTH_OF_LENGTH_FIELD

\* the check that the buffer holds the bytes of a signature
HasSignatureBytes(data) == Len(data) >= LENGTH_OF_SIGNATURE

\* the whole of Png::new: the container, or Panic
RECURSIVE PngNewLoop(_, _, _)
PngNewLoop(data, idx, chunks) ==
    IF idx < Len(data)
    THEN IF IterationPanics(data, idx)
         THEN Panic
         ELSE PngNewLoop(data, IterationNextIndex(data, idx),
                         Append(chunks, IterationChunk(data, idx)))
    ELSE [signature |-> Slice(data, 0, LENGTH_OF_SIGNATURE), chunks |-> chunks]

Png_new(data) ==
    IF HasSignatureBytes(data)
    THEN IF ~SliceInBounds(data, 0, LENGTH_OF_SIGNATURE)
         THEN Panic
         ELSE PngNewLoop(data, LENGTH_OF_SIGNATURE, <<>>)
    ELSE [signature |-> <<>>, chunks |-> <<>>]

(***************************************************************************)
(* The checksum collaborator                                               *)
(***************************************************************************)
RECURSIVE Xor16(_, _)
Xor16(a, b) ==
    IF a = 0 THEN b
    ELSE IF b = 0 THEN a
    ELSE (((a % 2) + (b % 2)) % 2) + 2 * Xor16(a \div 2, b \div 2)

\* bitwise exclusive or of two u32
Xor(v, w) == <<Xor16(v[1], w[1]), Xor16(v[2], w[2])>>

\* v >> 1
ShiftRight1(v) == <<v[1] \div 2, (v[2] \div 2) + 32768 * (v[1] % 2)>>

\* the reflected CRC-32 polynomial 0xEDB88320
CrcPoly == <<60856, 33568>>

RECURSIVE CrcBits(_, _)
CrcBits(c, k) ==
    IF k = 0 THEN c
    ELSE CrcBits(IF c[2] % 2 = 1 THEN Xor(ShiftRight1(c), CrcPoly) ELSE ShiftRight1(c),
                 k - 1)

\* the table of the CRCs of all 8-bit messages (make_crc_table)
crc_table == [n \in 0..255 |-> CrcBits(<<0, n>>, 8)]

\* c >> 8
ShiftRight8(c) == <<c[1] \div 256, (c[2] \div 256) + 256 * (c[1] % 256)>>

\* one byte into the register: crc_table[(c ^ byte) & 0xff] ^ (c >> 8)
CrcByte(c, byte) == Xor(crc_table[Xor16(c[2] % 256, byte)], ShiftRight8(c))

\* the loop of update_crc; s is <<the register, the next position of buf>>
RECURSIVE CrcFrom(_, _)
CrcFrom(s, buf) ==
    IF s[2] > Len(buf) THEN s[1]
    ELSE CrcFrom(<<CrcByte(s[1], buf[s[2]]), s[2] + 1>>, buf)

\* the native update_crc (lib/rust/C/sundry.c): the running CRC-32 register
\* crc advanced over the bytes of buf, with no pre- or post-conditioning
update_crc(crc, buf) == CrcFrom(<<crc, 1>>, buf)

AllOnes == <<65535, 65535>>

\* the PNG CRC-32 of a byte range: seed 0xFFFFFFFF, result complemented
StandardCrc(buf) == Xor(update_crc(AllOnes, buf), AllOnes)

(***************************************************************************)
(* Input buffers: a signature, then framed chunks, then the last cut bytes *)
(* removed.                                                                *)
(***************************************************************************)
\* a type field that is not UTF-8
NonUtf8Type == <<255, 72, 68, 82>>
TextType == <<116, 69, 88, 116>>
BadSignature == <<136, 80, 78, 71, 13, 10, 26, 10>>

TypeOrders ==
    { <<>>,
      <<PNG_IHDR_TYPE_SIGNATURE, PNG_IDAT_TYPE_SIGNATURE, PNG_IEND_TYPE_SIGNATURE>>,
      <<PNG_IHDR_TYPE_SIGNATURE, PNG_IDAT_TYPE_SIGNATURE, PNG_IDAT_TYPE_SIGNATURE,
        PNG_IEND_TYPE_SIGNATURE>>,
      <<PNG_IEND_TYPE_SIGNATURE>>,
      <<PNG_IDAT_TYPE_SIGNATURE, PNG_IHDR_TYPE_SIGNATURE>>,
      <<PNG_IHDR_TYPE_SIGNATURE, PNG_IEND_TYPE_SIGNATURE>>,
      <<PNG_IHDR_TYPE_SIGNATURE, TextType, PNG_IDAT_TYPE_SIGNATURE,
        PNG_IEND_TYPE_SIGNATURE>>,
      <<PNG_IHDR_TYPE_SIGNATURE, NonUtf8Type, PNG_IEND_TYPE_SIGNATURE>>,
      <<NonUtf8Type, PNG_IEND_TYPE_SIGNATURE>> }

\* byte j of the data (k = 0) or of the crc (k = 1) of the i-th chunk
FillByte(i, j, k) == (97 * i + 41 * j + 150 * k + 3) % 256

\* the framed chunk i of an input: its length field is the big-endian byte
\* count of its data
FramedChunk(i, type, n) ==
    [ length    |-> to_be_bytes(u32(n)),
      type_name |-> type,
      data      |-> [j \in 1..n |-> FillByte(i, j, 0)],
      crc       |-> [j \in 1..4 |-> FillByte(i, j, 1)] ]

ChunkBytes(c) == c.length \o c.type_name \o c.data \o c.crc

RECURSIVE LayoutBytes(_)
LayoutBytes(l) == IF l = <<>> THEN <<>> ELSE ChunkBytes(Head(l)) \o LayoutBytes(Tail(l))

Layouts ==
    UNION { { [i \in 1..Len(order) |-> FramedChunk(i, order[i], lens[i])] :
                lens \in [1..Len(order) -> 0..MaxDataLen] } :
            order \in TypeOrders }

\* an IHDR chunk as encoders write it: 13 data bytes with bit depth 8
HeaderChunk(w, h, color_type) ==
    [ length    |-> LENGTH_OF_IHDR_DATA,
      type_name |-> PNG_IHDR_TYPE_SIGNATURE,
      data      |-> to_be_bytes(u32(w)) \o to_be_bytes(u32(h)) \o <<8, color_type, 0, 0, 0>>,
      crc       |-> [j \in 1..4 |-> FillByte(1, j, 1)] ]

\* buffers whose only chunk is such an IHDR, of color type 0, 2 or 3
HeaderLayouts ==
    { <<HeaderChunk(w, h, color_type)>> :
        w \in 0..MaxWidth, h \in 0..MaxHeight, color_type \in {0, 2, 3} }

InputLayouts == Layouts \cup HeaderLayouts

Truncated(buf, c) == SubSeq(buf, 1, IF c >= Len(buf) THEN 0 ELSE Len(buf) - c)

(***************************************************************************)
(* State                                                                   *)
(***************************************************************************)
\* what the path holds: nothing, or a file with these bytes
NoFile == [exists |-> FALSE, bytes |-> <<>>]
FileOf(bytes) == [exists |-> TRUE, bytes |-> bytes]
NoArgs == [none |-> TRUE]
\* no read operation has been called yet
NoQuery == [op |-> "none"]

Init ==
    /\ pc = "idle"
    /\ input = <<>>
    /\ layout = <<>>
    /\ cut = 0
    /\ index = 0
    /\ head = <<>>
    /\ signature = <<>>
    /\ png = NoPng
    /\ origin = "none"
    /\ file = NoFile
    /\ saveResult = "none"
    /\ crcCalls = <<>>
    /\ args = NoArgs
    /\ query = NoQuery

(***************************************************************************)
(* Png::new                                                                *)
(***************************************************************************)
\* entry of Png::new up to the loop: a buffer shorter than the signature
\* returns the empty container at once
PngNewBegin ==
    /\ pc = "idle"
    /\ \E l \in InputLayouts, sig \in {PNG_SIGNATURE, BadSignature}, c \in 0..MaxCut :
         LET data == Truncated(sig \o LayoutBytes(l), c) IN
         /\ input' = data
         /\ layout' = l
         /\ cut' = IF c >= Len(sig \o LayoutBytes(l)) THEN Len(sig \o LayoutBytes(l)) ELSE c
         /\ IF HasSignatureBytes(data)
            THEN IF ~SliceInBounds(data, 0, LENGTH_OF_SIGNATURE)
                 THEN /\ pc' = "panicked"
                      /\ UNCHANGED <<signature, index, png>>
                 ELSE /\ signature' = Slice(data, 0, LENGTH_OF_SIGNATURE)
                      /\ index' = LENGTH_OF_SIGNATURE
                      /\ pc' = "new_loop"
                      /\ png' = png
            ELSE /\ signature' = signature
                 /\ index' = index
                 /\ pc' = "ready"
                 /\ png' = [signature |-> <<>>, chunks |-> head]
    /\ origin' = "parse"
    /\ UNCHANGED <<head, file, saveResult, crcCalls, args, query>>

\* one iteration of the while loop: slice the chunk at index, push it, advance
PngNewIteration ==
    /\ pc = "new_loop"
    /\ index < Len(input)
    /\ IF IterationPanics(input, index)
       THEN /\ pc' = "panicked"
            /\ UNCHANGED <<head, index>>
       ELSE /\ head' = Append(head, IterationChunk(input, index))
            /\ index' = IterationNextIndex(input, index)
            /\ pc' = pc
    /\ UNCHANGED <<input, layout, cut, signature, png, origin, file, saveResult,
                   crcCalls, args, query>>

\* the loop ends and the container is returned
PngNewReturn ==
    /\ pc = "new_loop"
    /\ ~(index < Len(input))
    /\ png' = [signature |-> signature, chunks |-> head]
    /\ pc' = "ready"
    /\ UNCHANGED <<input, layout, cut, index, head, signature, origin, file,
                   saveResult, crcCalls, args, query>>

(***************************************************************************)
(* Png::save_to_file                                                       *)
(***************************************************************************)
\* the writes of one chunk with the type ahead of the length
ChunkWrites_TypeFirst(chunk) ==
    << [panic |-> get_type_name_panics(chunk), bytes |-> get_type_name(chunk)],
       [panic |-> FALSE, bytes |-> to_be_bytes(get_length(chunk))],
       [panic |-> FALSE, bytes |-> get_data(chunk)],
       [panic |-> FALSE, bytes |-> to_be_bytes(get_crc(chunk))] >>

\* the arguments of the four write_all calls of one chunk, in order; the
\* second one is not reached when get_type_name panics
ChunkWrites(chunk) ==
    << [panic |-> FALSE, bytes |-> to_be_bytes(get_length(chunk))],
       [panic |-> get_type_name_panics(chunk), bytes |-> get_type_name(chunk)],
       [panic |-> FALSE, bytes |-> get_data(chunk)],
       [panic |-> FALSE, bytes |-> to_be_bytes(get_crc(chunk))] >>

RECURSIVE AllChunkWrites(_)
AllChunkWrites(chunks) ==
    IF chunks = <<>> THEN <<>>
    ELSE ChunkWrites(Head(chunks)) \o AllChunkWrites(Tail(chunks))

\* every write_all of save_to_file: the signature, then the chunks in order
SaveWrites(p) == <<[panic |-> FALSE, bytes |-> p.signature]>> \o AllChunkWrites(p.chunks)

\* the writes from the k-th on, onto the bytes written so far; write failAt
\* returns an io error, which the ? operator hands to the caller
RECURSIVE RunWrites(_, _, _, _)
RunWrites(writes, k, failAt, written) ==
    IF k > Len(writes) THEN [result |-> "Ok", file |-> FileOf(written)]
    ELSE IF writes[k].panic THEN [result |-> "Panic", file |-> FileOf(written)]
    ELSE IF k = failAt THEN [result |-> "Err", file |-> FileOf(written)]
    ELSE RunWrites(writes, k + 1, failAt, written \o writes[k].bytes)

\* save_to_file with File::create failing (failAt = 0), write failAt
\* failing, or no failure (failAt beyond the last write); before is what
\* the path held
save_to_file(p, failAt, before) ==
    IF failAt = 0 THEN [result |-> "Err", file |-> before]
    ELSE RunWrites(SaveWrites(p), 1, failAt, <<>>)

\* the container behind &self with its chunks gone after the call
SharedBorrow_ChunksTaken(p) == [signature |-> p.signature, chunks |-> <<>>]

\* the container behind &self after the call: the methods write through no
\* field of it
SharedBorrow(p) == p

SaveToFile ==
    /\ pc = "ready"
    /\ \E failAt \in 0..(Len(SaveWrites(png)) + 1) :
         /\ file' = save_to_file(png, failAt, file).file
         /\ saveResult' = save_to_file(png, failAt, file).result
    /\ pc' = "saved"
    /\ png' = SharedBorrow(png)
    /\ UNCHANGED <<input, layout, cut, index, head, signature, origin,
                   crcCalls, args, query>>

(***************************************************************************)
(* create_png_from_deflated_data, create_png_from_boxed_defalted_data      *)
(***************************************************************************)
\* a *mut c_uchar: null, or the address of a buffer holding bytes
NullPtr == [null |-> TRUE, bytes |-> <<>>]
PtrTo(bytes) == [null |-> FALSE, bytes |-> bytes]

\* the seed literal 0xfffffff of the IHDR update_crc call
IhdrCrcSeed == <<4095, 65535>>

\* update_crc (seed, buffer.as_ptr().add(offset), len) ^ 0xffffffff
CrcOfCall(buffer, call) ==
    Xor(update_crc(call.seed,
                   Slice(buffer, call.offset, call.offset + as_usize(call.len))),
        AllOnes)

\* the early return without the height check
CreateRejects_NoHeight(width, height, inflated) ==
    (inflated.data = NullPtr \/ inflated.size = u32(0)) \/ (width = u32(0))

\* the early return None
CreateRejects(width, height, inflated) ==
    (inflated.data = NullPtr \/ inflated.size = u32(0)) \/ (width = u32(0) \/ height = u32(0))

\* the IHDR bytes with the height ahead of the width
IhdrPart_HeightFirst(width, height) ==
    PNG_SIGNATURE \o LENGTH_OF_IHDR_DATA \o PNG_IHDR_TYPE_SIGNATURE
        \o to_be_bytes(height) \o to_be_bytes(width)
        \o IHDR_DATA_FOR_UNCOMPRESSED_FILE

\* the buffer as it stands when the IHDR checksum is taken
IhdrPart(width, height) ==
    PNG_SIGNATURE \o LENGTH_OF_IHDR_DATA \o PNG_IHDR_TYPE_SIGNATURE
        \o to_be_bytes(width) \o to_be_bytes(height)
        \o IHDR_DATA_FOR_UNCOMPRESSED_FILE

IhdrCrcCall ==
    [ seed   |-> IhdrCrcSeed,
      offset |-> LENGTH_OF_SIGNATURE + LENGTH_OF_LENGTH_FIELD,
      len    |-> wrapping_add(u32(LENGTH_OF_TYPE_FIELD),
                                 big_endian_read_u32(LENGTH_OF_IHDR_DATA)) ]

\* the IDAT bytes with the IEND length constant as the length field
IdatPart_IendLength(inflated) ==
    LENGTH_OF_IEND_DATA \o PNG_IDAT_TYPE_SIGNATURE
        \o Slice(inflated.data.bytes, 0, as_usize(inflated.size))

\* the bytes appended for IDAT before its checksum is taken
IdatPart(inflated) ==
    to_be_bytes(inflated.size) \o PNG_IDAT_TYPE_SIGNATURE
        \o Slice(inflated.data.bytes, 0, as_usize(inflated.size))

IdatCrcCall(inflated) ==
    [ seed   |-> AllOnes,
      offset |-> LENGTH_OF_SIGNATURE + LENGTH_OF_LENGTH_FIELD + LENGTH_OF_TYPE_FIELD
                   + as_usize(big_endian_read_u32(LENGTH_OF_IHDR_DATA))
                   + LENGTH_OF_LENGTH_FIELD,
      len    |-> wrapping_add(u32(LENGTH_OF_TYPE_FIELD), inflated.size) ]

\* the IEND bytes with the IDAT type constant
IendPart_IdatType == LENGTH_OF_IEND_DATA \o PNG_IDAT_TYPE_SIGNATURE

IendPart == LENGTH_OF_IEND_DATA \o PNG_IEND_TYPE_SIGNATURE

IendCrcCall(inflated) ==
    [ seed   |-> AllOnes,
      offset |-> (LENGTH_OF_SIGNATURE + LENGTH_OF_LENGTH_FIELD + LENGTH_OF_TYPE_FIELD
                    + as_usize(big_endian_read_u32(LENGTH_OF_IHDR_DATA))
                    + LENGTH_OF_CRC_FIELD + LENGTH_OF_LENGTH_FIELD + LENGTH_OF_TYPE_FIELD
                    + as_usize(inflated.size) + LENGTH_OF_CRC_FIELD)
                   + LENGTH_OF_LENGTH_FIELD,
      len    |-> wrapping_add(u32(LENGTH_OF_TYPE_FIELD),
                                 big_endian_read_u32(LENGTH_OF_IEND_DATA)) ]

\* the assembled buffer handed to Png::new
AssembledBuffer(width, height, inflated) ==
    LET b1 == IhdrPart(width, height)
        b2 == b1 \o to_be_bytes(CrcOfCall(b1, IhdrCrcCall)) \o IdatPart(inflated)
        b3 == b2 \o to_be_bytes(CrcOfCall(b2, IdatCrcCall(inflated))) \o IendPart
    IN b3 \o to_be_bytes(CrcOfCall(b3, IendCrcCall(inflated)))

\* the three update_crc calls, in order
AssemblyCrcCalls(inflated) == <<IhdrCrcCall, IdatCrcCall(inflated), IendCrcCall(inflated)>>

\* Option<Png>: NoPng is None
create_png_from_deflated_data(width, height, inflated) ==
    IF CreateRejects(width, height, inflated)
    THEN NoPng
    ELSE Png_new(AssembledBuffer(width, height, inflated))

Widths == {u32(0), u32(1), u32(100), <<1, 2>>, <<65535, 65535>>}
Heights == {u32(0), u32(2), u32(50), <<65535, 65535>>}

\* byte j of the payload with the given seed
PayloadByte(seed, j) == (seed + 67 * j) % 256
PayloadSeeds == {0, 201}

\* the InflatedData structures handed in: a null data pointer with size 0
\* or more, or a buffer of size bytes
InflatedChoices ==
    { [size |-> u32(n), data |-> NullPtr] : n \in {0, 3} }
    \cup { [size |-> u32(n), data |-> PtrTo([j \in 1..n |-> PayloadByte(seed, j)])] :
             n \in 0..MaxPayload, seed \in PayloadSeeds }

Create(width, height, inflated) ==
    /\ pc = "idle"
    /\ args' = [width |-> width, height |-> height, inflated |-> inflated]
    /\ png' = create_png_from_deflated_data(width, height, inflated)
    /\ input' = IF CreateRejects(width, height, inflated)
                THEN input ELSE AssembledBuffer(width, height, inflated)
    /\ crcCalls' = IF CreateRejects(width, height, inflated)
                   THEN crcCalls ELSE AssemblyCrcCalls(inflated)
    /\ origin' = "assemble"
    /\ pc' = IF create_png_from_deflated_data(width, height, inflated) = Panic
             THEN "panicked"
             ELSE IF CreateRejects(width, height, inflated) THEN "rejected" ELSE "ready"
    /\ UNCHANGED <<layout, cut, index, head, signature, file, saveResult, query>>

CreatePngFromDeflatedData ==
    \E width \in Widths, height \in Heights, inflated \in InflatedChoices :
        Create(width, height, inflated)

\* the boxed variant runs the same statements on a Box<DeflatedData>
CreatePngFromBoxedDeflatedData ==
    \E width \in Widths, height \in Heights, inflated \in InflatedChoices :
        Create(width, height, inflated)

(***************************************************************************)
(* Read operations on a container: Png::get_chunk_by_type, the IHDR        *)
(* accessors of Chunk, Png::get_all_idat_data_as_vec and                   *)
(* Png::get_all_idat_data_as_DeflatedData.  A call returns a value, or     *)
(* panics, or (a raw read outside the allocation) crashes or yields        *)
(* whatever bytes lie there.                                               *)
(***************************************************************************)
Value(v) == [outcome |-> "value", value |-> v]
UnwrapPanic == [outcome |-> "unwrap_panic"]
AssertPanic == [outcome |-> "assert_panic"]
IndexPanic == [outcome |-> "index_panic"]
Crash == [outcome |-> "crash"]
None == [outcome |-> "None"]
Some(v) == [outcome |-> "Some", value |-> v]

\* the type names asked for: IHDR, IDAT, IEND, tEXt, PLTE, ihdr, IDA
QueryNames ==
    { PNG_IHDR_TYPE_SIGNATURE, PNG_IDAT_TYPE_SIGNATURE, PNG_IEND_TYPE_SIGNATURE,
      TextType, <<80, 76, 84, 69>>, <<105, 104, 100, 114>>, <<73, 68, 65>> }

\* self.chunks.iter().find(|chunk| chunk.get_type_name() == type_name) from
\* the k-th chunk on; Some carries the position of the chunk referred to
RECURSIVE FindFrom(_, _, _)
FindFrom(chunks, k, type_name) ==
    IF k > Len(chunks) THEN None
    ELSE IF get_type_name_panics(chunks[k]) THEN UnwrapPanic
    ELSE IF get_type_name(chunks[k]) = type_name THEN Some(k)
    ELSE FindFrom(chunks, k + 1, type_name)

get_chunk_by_type(p, type_name) == FindFrom(p.chunks, 1, type_name)

\* the bytes a read outside the allocation may find
OutOfBoundsFill == {0, 255}

\* big_endian_read_u32 (self.data.as_ptr().wrapping_add(off)): inside the
\* data it is the value there; past its end the read is outside the Vec
ReadU32At(data, off) ==
    IF off + 4 <= Len(data)
    THEN { Value(big_endian_read_u32(Slice(data, off, off + 4))) }
    ELSE { Crash } \cup
         { Value(big_endian_read_u32(
                   [j \in 1..4 |-> IF off + j <= Len(data) THEN data[off + j] ELSE f])) :
             f \in OutOfBoundsFill }

\* self.data[i]
ByteAt(data, i) == IF i < Len(data) THEN { Value(data[i + 1]) } ELSE { IndexPanic }

get_width(chunk) == ReadU32At(chunk.data, 0)
\* get_height reading where get_width reads
get_height_AtZero(chunk) == ReadU32At(chunk.data, 0)

get_height(chunk) == ReadU32At(chunk.data, 4)
get_bit_depth(chunk) == ByteAt(chunk.data, 8)
get_color_type(chunk) == ByteAt(chunk.data, 9)
get_compression_method(chunk) == ByteAt(chunk.data, 10)
get_filter_method(chunk) == ByteAt(chunk.data, 11)
get_interlace_method(chunk) == ByteAt(chunk.data, 12)

AccessorNames ==
    { "get_width", "get_height", "get_bit_depth", "get_color_type",
      "get_compression_method", "get_filter_method", "get_interlace_method" }

\* the outcomes of the accessor called op on chunk
Accessor(op, chunk) ==
    CASE op = "get_width" -> get_width(chunk)
      [] op = "get_height" -> get_height(chunk)
      [] op = "get_bit_depth" -> get_bit_depth(chunk)
      [] op = "get_color_type" -> get_color_type(chunk)
      [] op = "get_compression_method" -> get_compression_method(chunk)
      [] op = "get_filter_method" -> get_filter_method(chunk)
      [] op = "get_interlace_method" -> get_interlace_method(chunk)

\* the loop putting each IDAT payload ahead of the bytes collected so far
RECURSIVE IdatFrom_Prepend(_, _, _)
IdatFrom_Prepend(chunks, k, all_idat_data) ==
    IF k > Len(chunks) THEN Value(all_idat_data)
    ELSE IF get_type_name_panics(chunks[k]) THEN UnwrapPanic
    ELSE IF get_type_name(chunks[k]) = PNG_IDAT_TYPE_SIGNATURE
         THEN IF as_usize(get_length(chunks[k])) # Len(chunks[k].data)
              THEN AssertPanic
              ELSE IdatFrom_Prepend(chunks, k + 1, chunks[k].data \o all_idat_data)
         ELSE IdatFrom_Prepend(chunks, k + 1, all_idat_data)

\* the loop of get_all_idat_data_as_vec from the k-th chunk on, with the
\* bytes collected so far
RECURSIVE IdatFrom(_, _, _)
IdatFrom(chunks, k, all_idat_data) ==
    IF k > Len(chunks) THEN Value(all_idat_data)
    ELSE IF get_type_name_panics(chunks[k]) THEN UnwrapPanic
    ELSE IF get_type_name(chunks[k]) = PNG_IDAT_TYPE_SIGNATURE
         THEN IF as_usize(get_length(chunks[k])) # Len(chunks[k].data)
              THEN AssertPanic
              ELSE IdatFrom(chunks, k + 1, all_idat_data \o chunks[k].data)
         ELSE IdatFrom(chunks, k + 1, all_idat_data)

get_all_idat_data_as_vec(p) == IdatFrom(p.chunks, 1, <<>>)

\* the address of a Vec's buffer after the Vec has been dropped
Dangling == [null |-> FALSE, freed |-> TRUE]

\* all_idat_data.as_mut_ptr() once all_idat_data is dropped at the end of
\* the function: its freed buffer, or for a Vec that never allocated the
\* non-null address of no allocation
AddressAfterDrop(bytes) == IF bytes = <<>> THEN PtrTo(<<>>) ELSE Dangling

\* a usize (64 bits) as four 16-bit limbs, most significant first
usize(n) == <<0, 0, n \div 65536, n % 65536>>

\* v as u32: the low 32 bits of a usize
as_u32(v) == <<v[3], v[4]>>

\* all_idat_data.len() as u32
len_as_u32(n) == as_u32(usize(n))

\* the same loop, then a DeflatedData of the length and the address of the
\* local Vec, which is dropped on return
get_all_idat_data_as_DeflatedData(p) ==
    IF IdatFrom(p.chunks, 1, <<>>).outcome = "value"
    THEN Value([ size |-> len_as_u32(Len(IdatFrom(p.chunks, 1, <<>>).value)),
                 data |-> AddressAfterDrop(IdatFrom(p.chunks, 1, <<>>).value) ])
    ELSE IdatFrom(p.chunks, 1, <<>>)

\* Vec::from_raw_parts(self.data, size, size) dropped at once on a buffer
\* that was already released
DoubleFree == [outcome |-> "double_free"]

\* DeflatedData::free, called by Drop: a non-null data is rebuilt into a Vec
\* and dropped, which releases it when its capacity is not 0, then the
\* fields are cleared
free(d) ==
    IF d.data.null THEN { Value(d) }
    ELSE IF "freed" \in DOMAIN d.data /\ d.size # u32(0) THEN { Crash, DoubleFree }
    ELSE { Value([size |-> u32(0), data |-> NullPtr]) }

get_signature(p) == Value(p.signature)
get_chunks(p) == Value(p.chunks)

\* the color types and bit depths asked for
ColorTypeArgs == {2, 3}
BitDepthArgs == {8, 16}

\* chunk.get_color_type() == color_type && chunk.get_bit_depth() == bit_depth
\* for one outcome of each accessor; && evaluates the right side only when
\* the left side is true
MatchWith(c, b, color_type, bit_depth) ==
    IF c.outcome # "value" THEN c
    ELSE IF c.value # color_type THEN Value(FALSE)
    ELSE IF b.outcome # "value" THEN b
    ELSE Value(b.value = bit_depth)

\* the outcomes of match_color_type_and_bit_depth
match_color_type_and_bit_depth(p, color_type, bit_depth) ==
    LET chunk == get_chunk_by_type(p, PNG_IHDR_TYPE_SIGNATURE) IN
    IF chunk.outcome = "unwrap_panic" THEN {UnwrapPanic}
    ELSE IF chunk.outcome = "None" THEN {Value(FALSE)}
    ELSE { MatchWith(c, b, color_type, bit_depth) :
             c \in get_color_type(p.chunks[chunk.value]),
             b \in get_bit_depth(p.chunks[chunk.value]) }

\* the accessors in the order the println! of traverse evaluates them
AccessorOrder ==
    << "get_width", "get_height", "get_bit_depth", "get_color_type",
       "get_compression_method", "get_filter_method", "get_interlace_method" >>

\* the ways the IHDR println! of traverse ends before printing: an accessor
\* fails after all accessors before it returned a value
IhdrPrintFailures(chunk) ==
    UNION { { o \in Accessor(AccessorOrder[i], chunk) : o.outcome # "value" } :
            i \in { n \in 1..7 :
                      \A m \in 1..(n - 1) :
                          \E o \in Accessor(AccessorOrder[m], chunk) :
                              o.outcome = "value" } }

IhdrPrintCompletes(chunk) ==
    \A n \in 1..7 : \E o \in Accessor(AccessorOrder[n], chunk) : o.outcome = "value"

\* the loop of traverse from the k-th chunk on
RECURSIVE TraverseFrom(_, _)
TraverseFrom(chunks, k) ==
    IF k > Len(chunks) THEN { Value(TRUE) }
    ELSE IF Len(chunks[k].type_name) < 4 THEN { IndexPanic }
    ELSE IF get_type_name_panics(chunks[k]) THEN { UnwrapPanic }
    ELSE IF get_type_name(chunks[k]) = PNG_IHDR_TYPE_SIGNATURE
    THEN IhdrPrintFailures(chunks[k])
           \cup (IF IhdrPrintCompletes(chunks[k]) THEN TraverseFrom(chunks, k + 1)
                 ELSE {})
    ELSE TraverseFrom(chunks, k + 1)

traverse(p) == TraverseFrom(p.chunks, 1)

\* data fields a caller may store through the public field Chunk::data
EditedData == { [j \in 1..n |-> (29 * j + 7) % 256] : n \in {14} }

\* a read operation can be called on a container the caller holds
CanQuery == pc \in {"ready", "edited"} /\ query = NoQuery

\* the position after a read operation
AfterQuery == IF pc = "ready" THEN "queried" ELSE pc

\* chunk.data = bytes, through the public fields of Png and Chunk
SetChunkData ==
    /\ pc = "ready"
    /\ query = NoQuery
    /\ \E i \in 1..Len(png.chunks), bytes \in EditedData :
         /\ bytes # png.chunks[i].data
         /\ png' = [png EXCEPT !.chunks[i].data = bytes]
    /\ pc' = "edited"
    /\ origin' = "edit"
    /\ UNCHANGED <<input, layout, cut, index, head, signature, file,
                   saveResult, crcCalls, args, query>>

\* a read operation leaves everything but its own result as it was
Answer(op, arg, result) ==
    /\ query' = [op |-> op, arg |-> arg, result |-> result, pre |-> png]
    /\ pc' = AfterQuery
    /\ png' = SharedBorrow(png)
    /\ UNCHANGED <<input, layout, cut, index, head, signature, origin, file,
                   saveResult, crcCalls, args>>

GetChunkByType ==
    /\ CanQuery
    /\ \E type_name \in QueryNames :
         Answer("get_chunk_by_type", type_name, get_chunk_by_type(png, type_name))

IhdrAccessor ==
    /\ CanQuery
    /\ \E i \in 1..Len(png.chunks), op \in AccessorNames :
         \E result \in Accessor(op, png.chunks[i]) : Answer(op, i, result)

GetAllIdatDataAsVec ==
    /\ CanQuery
    /\ Answer("get_all_idat_data_as_vec", 0, get_all_idat_data_as_vec(png))

GetAllIdatDataAsDeflatedData ==
    /\ CanQuery
    /\ Answer("get_all_idat_data_as_DeflatedData", 0,
              get_all_idat_data_as_DeflatedData(png))

GetSignature ==
    /\ CanQuery
    /\ Answer("get_signature", 0, get_signature(png))

GetChunks ==
    /\ CanQuery
    /\ Answer("get_chunks", 0, get_chunks(png))

MatchColorTypeAndBitDepth ==
    /\ CanQuery
    /\ \E color_type \in ColorTypeArgs, bit_depth \in BitDepthArgs :
         \E result \in match_color_type_and_bit_depth(png, color_type, bit_depth) :
             Answer("match_color_type_and_bit_depth", <<color_type, bit_depth>>, result)

Traverse ==
    /\ CanQuery
    /\ \E result \in traverse(png) : Answer("traverse", 0, result)

\* the caller rebuilds the Box around the DeflatedData it was handed and
\* lets it go out of scope: Drop calls free
DropDeflatedData ==
    /\ query # NoQuery
    /\ query.op = "get_all_idat_data_as_DeflatedData"
    /\ query.result.outcome = "value"
    /\ \E result \in free(query.result.value) :
         query' = [op |-> "drop", arg |-> query.result.value, result |-> result,
                   pre |-> query.pre]
    /\ UNCHANGED <<pc, input, layout, cut, index, head, signature, png, origin,
                   file, saveResult, crcCalls, args>>

(***************************************************************************)
(* Png::remove_filter_bytes_from_inflated_data                             *)
(***************************************************************************)
\* the InflatedData { size: 0, data: ptr::null_mut() } of the early returns
NullData == [size |-> u32(0), data |-> NullPtr]
AllocFailure == [outcome |-> "alloc_failure"]

\* a width or height below MaxExactDim
Exact(v) == v[1] = 0 /\ v[2] < MaxExactDim

\* a u32 as usize, exact below MaxExactDim
Dim(v) == IF Exact(v) THEN v[2] ELSE MaxExactDim

\* Vec::with_capacity(width * height * bytes_per_pixel) for a width or height
\* of MaxExactDim or more: the product may overflow, or the allocation fail
CapacityMayFail(w, h) == ~(Exact(w) /\ Exact(h)) /\ Dim(w) # 0 /\ Dim(h) # 0

\* row_data[1..].chunks_exact(bytes_per_pixel)
chunks_exact(slice, n) ==
    [i \in 1..(Len(slice) \div n) |-> SubSeq(slice, (i - 1) * n + 1, i * n)]

\* the pushes of pixel_chunk[0], [1], [2] for the pixels from the i-th on;
\* <<FALSE, _>> when an index is out of bounds
RECURSIVE PushPixels(_, _, _)
PushPixels(pixels, i, vec) ==
    IF i > Len(pixels) THEN <<TRUE, vec>>
    ELSE IF Len(pixels[i]) < 3 THEN <<FALSE, vec>>
    ELSE PushPixels(pixels, i + 1, vec \o <<pixels[i][1], pixels[i][2], pixels[i][3]>>)

\* the pixels of a row taken only when its filter byte is 0
RowPixels_WhenFilterNone(row_data, bytes_per_pixel) ==
    IF row_data[1] = 0
    THEN chunks_exact(Slice(row_data, 1, Len(row_data)), bytes_per_pixel)
    ELSE <<>>

\* the pixels the inner loop visits: filter_type = row_data[0] is read and
\* used in no decision, then row_data[1..].chunks_exact(bytes_per_pixel)
RowPixels(row_data, bytes_per_pixel) ==
    chunks_exact(Slice(row_data, 1, Len(row_data)), bytes_per_pixel)

\* row_stride with the leading filter byte left out
RowStride_NoFilterByte(width, bytes_per_pixel) == width * bytes_per_pixel

\* row_stride = (width * bytes_per_pixel) + 1
RowStride(width, bytes_per_pixel) == (width * bytes_per_pixel) + 1

\* the row-overrun branch returning the bytes pushed for the earlier rows
RowOverrun_PartialData(row, vec) ==
    [outcome |-> "value", value |-> [size |-> u32(Len(vec)), data |-> PtrTo(vec)],
     eprintln |-> row]

\* the branch taken when row_end exceeds the buffer: the row index goes to
\* stderr, the bytes pushed so far are dropped with the Vec, and the value
\* returned is size 0 with a null pointer
RowOverrun(row, vec) ==
    [outcome |-> "value", value |-> NullData, eprintln |-> row]

\* the loop over the rows from row on, with the bytes pushed so far
RECURSIVE UnfilterRows(_, _, _, _, _, _)
UnfilterRows(data_slice, row, height, width, bytes_per_pixel, vec) ==
    IF row >= height
    THEN Value([size |-> u32(Len(vec)), data |-> PtrTo(vec)])
    ELSE IF row * RowStride(width, bytes_per_pixel) + RowStride(width, bytes_per_pixel)
              <= Len(data_slice)
    THEN LET pushed ==
               PushPixels(
                 RowPixels(
                   Slice(data_slice,
                         row * RowStride(width, bytes_per_pixel),
                         row * RowStride(width, bytes_per_pixel)
                           + RowStride(width, bytes_per_pixel)),
                   bytes_per_pixel),
                 1, vec)
         IN IF pushed[1]
            THEN UnfilterRows(data_slice, row + 1, height, width, bytes_per_pixel,
                              pushed[2])
            ELSE IndexPanic
    ELSE RowOverrun(row, vec)

\* the function from the match on the color type on, for one outcome of
\* each of get_width, get_height and get_color_type on the IHDR chunk
UnfilterWith(w, h, c, data_slice) ==
    IF w.outcome # "value" THEN {w}
    ELSE IF h.outcome # "value" THEN {h}
    ELSE IF c.outcome # "value" THEN {c}
    ELSE IF c.value \notin {2, 3} THEN {Value(NullData)}
    ELSE (IF CapacityMayFail(w.value, h.value) THEN {AllocFailure} ELSE {})
         \cup { UnfilterRows(data_slice, 0, Dim(h.value), Dim(w.value),
                             IF c.value = 2 THEN 3 ELSE 1, <<>>) }

\* the outcomes of the call on a container and the bytes of an InflatedData
remove_filter_bytes_from_inflated_data(p, data_slice) ==
    LET ihdr_chunk == get_chunk_by_type(p, PNG_IHDR_TYPE_SIGNATURE) IN
    IF ihdr_chunk.outcome = "unwrap_panic" THEN {UnwrapPanic}
    ELSE IF ihdr_chunk.outcome = "None" THEN {Value(NullData)}
    ELSE UNION { UnfilterWith(w, h, c, data_slice) :
                   w \in get_width(p.chunks[ihdr_chunk.value]),
                   h \in get_height(p.chunks[ihdr_chunk.value]),
                   c \in get_color_type(p.chunks[ihdr_chunk.value]) }

\* byte j of row r of a scanline buffer
PixelByte(r, j) == (61 * r + 13 * j + 9) % 256

\* rows scanlines of one filter byte and n more bytes each
Scanlines(rows, n, filter_type) ==
    [k \in 1..(rows * (n + 1)) |->
        IF (k - 1) % (n + 1) = 0 THEN filter_type
        ELSE PixelByte((k - 1) \div (n + 1), (k - 1) % (n + 1))]

\* decompressed buffers: whole scanlines for 1 and 3 bytes per pixel, with
\* filter byte 0 or 1, as they are, one byte short, or with one byte more
InflatedBuffers ==
    UNION { { Scanlines(rows, w * bpp, filter_type),
              Scanlines(rows, w * bpp, filter_type) \o <<77>>,
              SubSeq(Scanlines(rows, w * bpp, filter_type), 1, rows * (w * bpp + 1) - 1) } :
            rows \in 0..MaxHeight, w \in 0..MaxWidth, bpp \in {1, 3},
            filter_type \in {0, 1} }

\* the caller's buffer after the call: data_slice is a shared slice made
\* by slice::from_raw_parts and is only read
SharedSlice(data_slice) == data_slice

RemoveFilterBytesFromInflatedData ==
    /\ pc = "ready"
    /\ query = NoQuery
    /\ \E data_slice \in InflatedBuffers :
         \E result \in remove_filter_bytes_from_inflated_data(png, data_slice) :
             query' = [op |-> "remove_filter_bytes_from_inflated_data",
                       arg |-> data_slice, result |-> result, pre |-> png,
                       inflated_data |-> SharedSlice(data_slice)]
    /\ pc' = AfterQuery
    /\ png' = SharedBorrow(png)
    /\ UNCHANGED <<input, layout, cut, index, head, signature, origin, file,
                   saveResult, crcCalls, args>>

Next ==
    \/ PngNewBegin
    \/ PngNewIteration
    \/ PngNewReturn
    \/ SaveToFile
    \/ CreatePngFromDeflatedData
    \/ CreatePngFromBoxedDeflatedData
    \/ SetChunkData
    \/ GetChunkByType
    \/ IhdrAccessor
    \/ GetAllIdatDataAsVec
    \/ GetAllIdatDataAsDeflatedData
    \/ GetSignature
    \/ GetChunks
    \/ MatchColorTypeAndBitDepth
    \/ Traverse
    \/ DropDeflatedData
    \/ RemoveFilterBytesFromInflatedData

Spec == Init /\ [][Next]_vars

(***************************************************************************)
(* The 32-bit length arithmetic on its own, for byte counts no buffer of   *)
(* the model can have: all_idat_data.len() as u32 and                      *)
(* (LENGTH_OF_TYPE_FIELD as u32) + inflated_data.size.                     *)
(***************************************************************************)
\* byte counts around 0, 2^16, 2^31, 2^32 - 4, 2^32 and 2^32 + 2^16
ByteCounts ==
    { <<0, b, c, d>> : b \in {0, 1}, c \in {0, 1, 32768, 65535},
                       d \in {0, 1, 3, 5, 65531, 65532, 65533, 65535} }

OverflowPanic == [outcome |-> "overflow_panic"]

\* a + b on u32: past 2^32 - 1 the sum wraps (overflow checks off) or the
\* addition panics (overflow checks on)
checked_or_wrapping_add(v, w) ==
    IF (v[2] + w[2]) \div 65536 + v[1] + w[1] >= 65536
    THEN { Value(wrapping_add(v, w)), OverflowPanic }
    ELSE { Value(wrapping_add(v, w)) }

\* the length handed to update_crc for IDAT
IdatCrcRangeLen(size) == checked_or_wrapping_add(u32(LENGTH_OF_TYPE_FIELD), size)

InitLen ==
    /\ pc = "count"
    /\ args \in { [count |-> n] : n \in ByteCounts }
    /\ input = <<>>
    /\ layout = <<>>
    /\ cut = 0
    /\ index = 0
    /\ head = <<>>
    /\ signature = <<>>
    /\ png = NoPng
    /\ origin = "none"
    /\ file = NoFile
    /\ saveResult = "none"
    /\ crcCalls = <<>>
    /\ query = NoQuery

\* the size field of the DeflatedData built from count collected bytes
LenAsU32 ==
    /\ pc = "count"
    /\ query = NoQuery
    /\ Answer("len_as_u32", args.count, Value(as_u32(args.count)))

\* the CRC range length for a payload whose size field holds count
AddTypeFieldLength ==
    /\ pc = "count"
    /\ query = NoQuery
    /\ as_u32(args.count) # u32(0)
    /\ \E result \in IdatCrcRangeLen(as_u32(args.count)) :
         Answer("idat_crc_range_len", as_u32(args.count), result)

NextLen == LenAsU32 \/ AddTypeFieldLength

SpecLen == InitLen /\ [][NextLen]_vars

(***************************************************************************)
(* modify_png_pixel_data                                                   *)
(***************************************************************************)
\* the offset of a pixel byte with the rows taken as width * 3 bytes long
PixelOffset_NoFilterByte(i, width, j) == (i * (width * 3)) + j

\* (i*(width*3 + 1)) as usize + j: byte j of row i; j = 0 is the filter byte
PixelOffset(i, width, j) == (i * (width * 3 + 1)) + j

\* the stores of data[0], data[1], data[2] at off, off + 1, off + 2 as far
\* as data has the element; the index past its end panics
StorePixel(mem, off, data) ==
    [k \in 1..Len(mem) |->
        IF k - 1 - off \in 0..2 /\ k - 1 - off < Len(data)
        THEN data[k - off] ELSE mem[k]]

\* the two loops from pixel j of row i on; st is the memory at
\* pixels.data with the bytes after the allocation, and whether an access
\* has gone past the size bytes of the allocation
RECURSIVE ModifyFrom(_, _, _, _, _)
ModifyFrom(st, a, size, i, j) ==
    IF i >= a.height THEN <<"value", st[1], st[2]>>
    ELSE IF j >= a.width * 3 + 1 THEN ModifyFrom(st, a, size, i + 1, 1)
    ELSE IF st[1][PixelOffset(i, a.width, 0) + 1] # 0
    THEN ModifyFrom(<<st[1], st[2] \/ PixelOffset(i, a.width, 0) >= size>>,
                    a, size, i, j + 3)
    ELSE IF Len(a.data) < 3
    THEN << "index_panic", StorePixel(st[1], PixelOffset(i, a.width, j), a.data),
            st[2] \/ PixelOffset(i, a.width, 0) >= size
                  \/ (a.data # <<>> /\ PixelOffset(i, a.width, j) >= size) >>
    ELSE ModifyFrom(
           << StorePixel(st[1], PixelOffset(i, a.width, j), a.data),
              st[2] \/ PixelOffset(i, a.width, j) + 2 >= size >>,
           a, size, i, j + 3)

\* the outcome of a run that ended as r: with every access inside the
\* allocation it is the run's; otherwise the process may also have crashed,
\* and memory outside the buffer was read or written
ModifyOutcomes(r, size) ==
    { [outcome |-> r[1], returned |-> "pixels", pixels |-> SubSeq(r[2], 1, size),
       out_of_bounds |-> r[3]] }
      \cup (IF r[3] THEN {Crash} ELSE {})

\* n bytes f of the memory that follows the allocation
BytesAfter(n, f) == IF n > 0 THEN [k \in 1..n |-> f] ELSE <<>>

\* the outcomes of modify_png_pixel_data(pixels, data, width, height,
\* color_type, bit_depth) for the bytes a.pixels at pixels.data
modify_png_pixel_data(a) ==
    IF a.color_type = 2 /\ a.bit_depth = 8
    THEN UNION { ModifyOutcomes(
                   ModifyFrom(<< a.pixels \o
                                   BytesAfter(PixelOffset(a.height, a.width, 0)
                                                - Len(a.pixels), f),
                                 FALSE >>,
                              a, Len(a.pixels), 0, 1),
                   Len(a.pixels)) : f \in OutOfBoundsFill }
    ELSE { [outcome |-> "value", returned |-> "pixels", pixels |-> a.pixels,
            out_of_bounds |-> FALSE] }

\* scanlines of n bytes after a filter byte that is 0 in the rows of zero
RowsWithFilters(rows, n, zero) ==
    [k \in 1..(rows * (n + 1)) |->
        IF (k - 1) % (n + 1) = 0
        THEN (IF (k - 1) \div (n + 1) \in zero THEN 0 ELSE 1)
        ELSE PixelByte((k - 1) \div (n + 1), (k - 1) % (n + 1))]

\* pixel buffers: whole RGB scanlines, as they are, with one byte more, or
\* one byte short
PixelBuffers ==
    UNION { { RowsWithFilters(rows, 3 * w, zero),
              RowsWithFilters(rows, 3 * w, zero) \o <<77>>,
              SubSeq(RowsWithFilters(rows, 3 * w, zero), 1, rows * (3 * w + 1) - 1) } :
            rows \in 0..MaxHeight, w \in 0..MaxWidth, zero \in SUBSET (0..(MaxHeight - 1)) }

\* the colors written: three components, one more, or too few
PixelData == { <<200, 100, 50>>, <<200, 100, 50, 25>>, <<200>>, <<>> }

InitModify ==
    /\ pc = "pixels"
    /\ args \in [ pixels : PixelBuffers, data : PixelData, width : 0..MaxWidth,
                  height : 0..MaxHeight, color_type : ColorTypeArgs,
                  bit_depth : BitDepthArgs ]
    /\ input = <<>>
    /\ layout = <<>>
    /\ cut = 0
    /\ index = 0
    /\ head = <<>>
    /\ signature = <<>>
    /\ png = NoPng
    /\ origin = "none"
    /\ file = NoFile
    /\ saveResult = "none"
    /\ crcCalls = <<>>
    /\ query = NoQuery

ModifyPngPixelData ==
    /\ pc = "pixels"
    /\ query = NoQuery
    /\ \E result \in modify_png_pixel_data(args) :
         query' = [op |-> "modify_png_pixel_data", arg |-> args, result |-> result,
                   pre |-> png]
    /\ UNCHANGED <<pc, input, layout, cut, index, head, signature, png, origin,
                   file, saveResult, crcCalls, args>>

NextModify == ModifyPngPixelData

SpecModify == InitModify /\ [][NextModify]_vars

(***************************************************************************)
(* Vocabulary of the properties                                            *)
(***************************************************************************)
\* a container has been returned to the caller
Returned == pc \in {"ready", "saved", "queried"}

TypesOf(chunks) == [i \in 1..Len(chunks) |-> chunks[i].type_name]

\* IHDR first, IEND last, one or more IDAT in between
OrderedTypes(t) ==
    /\ Len(t) >= 3
    /\ t[1] = <<73, 72, 68, 82>>
    /\ t[Len(t)] = <<73, 69, 78, 68>>
    /\ \A i \in 2..(Len(t) - 1) : t[i] = <<73, 68, 65, 84>>

\* the offset just after the k-th of the framed chunks that follow a signature
RECURSIVE EndOf(_, _)
EndOf(chunks, k) ==
    IF k = 0 THEN 8 ELSE EndOf(chunks, k - 1) + 12 + Len(chunks[k].data)

\* the number of chunks of the layout that lie wholly in the first n bytes
WholeChunks(l, n) == Cardinality({k \in 1..Len(l) : EndOf(l, k) <= n})

\* the input buffer ends inside a chunk
CutMidChunk ==
    /\ Len(input) >= 8
    /\ Len(input) \notin {EndOf(layout, k) : k \in 0..Len(layout)}

StartsWithSignature ==
    /\ Len(input) >= 8
    /\ SubSeq(input, 1, 8) = <<137, 80, 78, 71, 13, 10, 26, 10>>

\* the value of a big-endian length field (below 2^31)
FieldValue(b) == ((b[1] * 256 + b[2]) * 256 + b[3]) * 256 + b[4]

\* B is the signature followed only by IHDR, IDAT(s), IEND, whole
WellFormedInput ==
    /\ origin = "parse"
    /\ cut = 0
    /\ StartsWithSignature
    /\ OrderedTypes(TypesOf(layout))

ValidAssemblyArgs ==
    /\ origin = "assemble"
    /\ args.width # <<0, 0>>
    /\ args.height # <<0, 0>>
    /\ ~args.inflated.data.null
    /\ args.inflated.size # <<0, 0>>

(***************************************************************************)
(* Properties                                                              *)
(***************************************************************************)
\* C1: for a well-formed buffer B of signature, IHDR, IDAT(s), IEND, Png::new
\* does not panic and a save_to_file that returns Ok has written exactly the
\* bytes of B.
C1_RoundTrip ==
    WellFormedInput =>
        /\ pc # "panicked"
        /\ pc = "saved" =>
             /\ saveResult # "Panic"
             /\ saveResult = "Ok" => file = FileOf(input)

C1_Witness ==
    /\ WellFormedInput
    /\ pc = "saved"
    /\ saveResult = "Ok"
    /\ Len(layout) = 4
    /\ Len(layout[2].data) = 1
    /\ file = FileOf(input)

\* C2: Png::new on a buffer of at least 8 bytes that ends inside a chunk
\* returns an error value and never panics.
C2_TruncationReturnsError ==
    (origin = "parse" /\ CutMidChunk) => pc # "panicked"

\* C3: the CRC stored in the assembled IHDR chunk is the standard PNG CRC-32
\* of "IHDR" || payload: update_crc is seeded with 0xFFFFFFFF and its result
\* complemented.
C3_IhdrCrcStandard ==
    (origin = "assemble" /\ Returned) =>
        /\ crcCalls[1].seed = <<65535, 65535>>
        /\ png.chunks[1].crc =
             to_be_bytes(StandardCrc(png.chunks[1].type_name \o png.chunks[1].data))

\* C4: each of the three update_crc calls of file assembly starts at the first
\* byte of its chunk's type field and covers 4 + (data length) bytes.
C4_CrcRanges ==
    (origin = "assemble" /\ Returned /\ Len(png.chunks) = 3) =>
        \A k \in 1..3 :
            /\ crcCalls[k].offset = EndOf(png.chunks, k - 1) + 4
            /\ as_usize(crcCalls[k].len) = 4 + Len(png.chunks[k].data)

\* C5: for width > 0, height > 0 and a non-empty payload, file assembly
\* returns a container with the PNG signature and exactly the chunks IHDR
\* (length 13), IDAT (data = the payload), IEND (length 0), in that order.
C5_AssemblyMinimal ==
    ValidAssemblyArgs =>
        /\ Returned
        /\ png.signature = <<137, 80, 78, 71, 13, 10, 26, 10>>
        /\ TypesOf(png.chunks)
             = << <<73, 72, 68, 82>>, <<73, 68, 65, 84>>, <<73, 69, 78, 68>> >>
        /\ png.chunks[1].length = <<0, 0, 0, 13>>
        /\ Len(png.chunks[1].data) = 13
        /\ png.chunks[2].data = args.inflated.data.bytes
        /\ png.chunks[3].length = <<0, 0, 0, 0>>
        /\ png.chunks[3].data = <<>>

C5_Witness ==
    /\ ValidAssemblyArgs
    /\ pc = "ready"
    /\ Len(args.inflated.data.bytes) = MaxPayload
    /\ Len(png.chunks) = 3
    /\ png.chunks[2].data = args.inflated.data.bytes

\* C6: with width = 0, height = 0, a null data pointer or size 0, file
\* assembly returns None: no container and no file.
C6_InvalidInputRejected ==
    ( /\ origin = "assemble"
      /\ \/ args.width = <<0, 0>>
         \/ args.height = <<0, 0>>
         \/ args.inflated.data.null
         \/ args.inflated.size = <<0, 0>> ) =>
        /\ pc = "rejected"
        /\ png = NoPng
        /\ file = NoFile

C6_Witness ==
    /\ origin = "assemble"
    /\ pc = "rejected"
    /\ args.height = <<0, 0>>
    /\ args.width # <<0, 0>>
    /\ ~args.inflated.data.null
    /\ args.inflated.size # <<0, 0>>
    /\ png = NoPng

\* C7: every chunk of a container returned by Png::new has as many data bytes
\* as its big-endian length field says, and length, type and crc fields of 4
\* bytes each.
C7_DataLenIsDeclared ==
    Returned =>
        \A i \in 1..Len(png.chunks) :
            /\ Len(png.chunks[i].length) = 4
            /\ Len(png.chunks[i].type_name) = 4
            /\ Len(png.chunks[i].crc) = 4
            /\ Len(png.chunks[i].data) = FieldValue(png.chunks[i].length)

C7_Witness ==
    /\ origin = "parse"
    /\ pc = "ready"
    /\ Len(png.chunks) = 4
    /\ Len(png.chunks[1].data) = 0
    /\ Len(png.chunks[3].data) = 1
    /\ FieldValue(png.chunks[3].length) = 1

\* C8: Png::new on a buffer shorter than 8 bytes returns the empty container
\* (empty signature, no chunks) and neither fails nor panics.
C8_ShortInputEmpty ==
    (origin = "parse" /\ Len(input) < 8) =>
        /\ Returned
        /\ png = [signature |-> <<>>, chunks |-> <<>>]

C8_Witness ==
    /\ origin = "parse"
    /\ Len(input) = 7
    /\ pc = "ready"
    /\ png = [signature |-> <<>>, chunks |-> <<>>]

\* C9: Png::new on a whole buffer of at least 8 bytes that does not start
\* with the PNG signature neither panics nor returns a container with chunks.
C9_BadSignatureRejected ==
    (origin = "parse" /\ cut = 0 /\ Len(input) >= 8 /\ ~StartsWithSignature) =>
        /\ pc # "panicked"
        /\ ~(Returned /\ png.chunks # <<>>)

\* C10 as stated: every container returned by Png::new or by file assembly
\* has IHDR first, IEND last and one or more IDAT in between.
C10_EveryContainerOrdered ==
    Returned => OrderedTypes(TypesOf(png.chunks))

\* C10 as amended: every container returned by file assembly has IHDR first,
\* IEND last and IDAT in between; a container returned by Png::new holds the
\* chunks framed in its input buffer, in the buffer's order, whatever their
\* types.
C10_AssemblyOrderedParseKeepsOrder ==
    Returned =>
        /\ origin = "assemble" => OrderedTypes(TypesOf(png.chunks))
        /\ origin = "parse" =>
             TypesOf(png.chunks)
               = TypesOf(SubSeq(layout, 1, WholeChunks(layout, Len(input))))

C10_Witness ==
    /\ origin = "parse"
    /\ pc = "ready"
    /\ Len(png.chunks) = 2
    /\ png.chunks[1].type_name = <<73, 68, 65, 84>>
    /\ png.chunks[2].type_name = <<73, 72, 68, 82>>
    /\ ~OrderedTypes(TypesOf(png.chunks))

\* the bytes Serialize would write for chunks whose CRC is computed afresh
RECURSIVE FreshlyChecksummed(_)
FreshlyChecksummed(chunks) ==
    IF chunks = <<>> THEN <<>>
    ELSE Head(chunks).length \o Head(chunks).type_name \o Head(chunks).data
           \o to_be_bytes(StandardCrc(Head(chunks).type_name \o Head(chunks).data))
           \o FreshlyChecksummed(Tail(chunks))

\* C11: the CRC bytes save_to_file writes for each chunk are the CRC-32
\* freshly computed over that chunk's type || data, not its stored crc field.
C11_SerializeRecomputesCrc ==
    (pc = "saved" /\ saveResult = "Ok") =>
        file = FileOf(png.signature \o FreshlyChecksummed(png.chunks))

\* the positions of the chunks of a sequence whose type bytes are the name
PositionsOfType(chunks, name) == {i \in 1..Len(chunks) : chunks[i].type_name = name}

\* C12: get_chunk_by_type returns the earliest chunk whose 4 type bytes equal
\* the name, and None, never a failure, when no chunk has that type.
C12_FindFirst ==
    query.op = "get_chunk_by_type" =>
        IF PositionsOfType(query.pre.chunks, query.arg) = {}
        THEN query.result.outcome = "None"
        ELSE /\ query.result.outcome = "Some"
             /\ query.result.value \in PositionsOfType(query.pre.chunks, query.arg)
             /\ \A i \in PositionsOfType(query.pre.chunks, query.arg) :
                    query.result.value <= i

\* the data of the IDAT chunks of a sequence, one after the other
RECURSIVE ConcatIdat(_)
ConcatIdat(chunks) ==
    IF chunks = <<>> THEN <<>>
    ELSE (IF Head(chunks).type_name = <<73, 68, 65, 84>> THEN Head(chunks).data ELSE <<>>)
           \o ConcatIdat(Tail(chunks))

\* every type field is text and every IDAT length field is the data's length
Collectable(chunks) ==
    \A i \in 1..Len(chunks) :
        /\ IsUtf8(chunks[i].type_name)
        /\ chunks[i].type_name = <<73, 68, 65, 84>> =>
             FieldValue(chunks[i].length) = Len(chunks[i].data)

\* C13: get_all_idat_data_as_vec returns the data of every IDAT chunk and of
\* no other chunk, concatenated in container order (one IDAT: its bytes
\* unchanged; no IDAT: empty).
C13_ConcatenatedPayload ==
    query.op = "get_all_idat_data_as_vec" =>
        /\ query.result.outcome = "value" =>
             query.result.value = ConcatIdat(query.pre.chunks)
        /\ Collectable(query.pre.chunks) => query.result.outcome = "value"

C13_Witness ==
    /\ query.op = "get_all_idat_data_as_vec"
    /\ query.result.outcome = "value"
    /\ Len(query.pre.chunks) = 4
    /\ Cardinality(PositionsOfType(query.pre.chunks, <<73, 68, 65, 84>>)) = 2
    /\ \A i \in 1..4 : Len(query.pre.chunks[i].data) = 1
    /\ query.result.value
         = query.pre.chunks[2].data \o query.pre.chunks[3].data

\* C14: when an IDAT chunk's length field disagrees with the byte count of
\* its data, collecting the IDAT data returns a LengthMismatch error value: it
\* does not abort through a failed assertion.
C14_LengthMismatchIsAnError ==
    ( /\ query.op \in {"get_all_idat_data_as_vec", "get_all_idat_data_as_DeflatedData"}
      /\ \A i \in 1..Len(query.pre.chunks) : IsUtf8(query.pre.chunks[i].type_name)
      /\ \E i \in PositionsOfType(query.pre.chunks, <<73, 68, 65, 84>>) :
             FieldValue(query.pre.chunks[i].length) # Len(query.pre.chunks[i].data) ) =>
        query.result.outcome = "LengthMismatch"

\* the four bytes of a 32-bit value, most significant first
Bytes4(v) == <<v[1] \div 256, v[1] % 256, v[2] \div 256, v[2] % 256>>

\* the 32-bit value whose big-endian bytes are d[i + 1 .. i + 4]
ValueAt(d, i) == <<d[i + 1] * 256 + d[i + 2], d[i + 3] * 256 + d[i + 4]>>

\* the chunk an accessor was called on
QueriedChunk == query.pre.chunks[query.arg]

\* C15: on a chunk with at least 13 data bytes get_width and get_height are
\* the big-endian u32 of data bytes 0..3 and 4..7, the other five accessors
\* are bytes 8, 9, 10, 11, 12, and no accessor changes the chunk.
C15_IhdrAccessorsProject ==
    (query.op \in AccessorNames /\ Len(QueriedChunk.data) >= 13) =>
        /\ png = query.pre
        /\ query.result.outcome = "value"
        /\ query.result.value =
             CASE query.op = "get_width" -> ValueAt(QueriedChunk.data, 0)
               [] query.op = "get_height" -> ValueAt(QueriedChunk.data, 4)
               [] query.op = "get_bit_depth" -> QueriedChunk.data[9]
               [] query.op = "get_color_type" -> QueriedChunk.data[10]
               [] query.op = "get_compression_method" -> QueriedChunk.data[11]
               [] query.op = "get_filter_method" -> QueriedChunk.data[12]
               [] query.op = "get_interlace_method" -> QueriedChunk.data[13]

C15_Witness ==
    /\ query.op = "get_height"
    /\ Len(QueriedChunk.data) = 14
    /\ ValueAt(QueriedChunk.data, 0) # ValueAt(QueriedChunk.data, 4)
    /\ query.result = [outcome |-> "value", value |-> ValueAt(QueriedChunk.data, 4)]

\* C16: every IHDR accessor called on a chunk with fewer than 13 data bytes
\* returns a MalformedIhdr error; none panics or reads past the data.
C16_MalformedIhdrIsAnError ==
    (query.op \in AccessorNames /\ Len(QueriedChunk.data) < 13) =>
        query.result.outcome = "MalformedIhdr"

\* C17: the IHDR chunk built by assembly has length field 00 00 00 0D, type
\* "IHDR" and the payload big-endian width, big-endian height, 8, 2, 0, 0, 0;
\* get_width and get_height on it return the width and height given.
C17_SynthesizedIhdrLayout ==
    (origin = "assemble" /\ Returned) =>
        /\ png.chunks[1].length = <<0, 0, 0, 13>>
        /\ png.chunks[1].type_name = <<73, 72, 68, 82>>
        /\ png.chunks[1].data
             = Bytes4(args.width) \o Bytes4(args.height) \o <<8, 2, 0, 0, 0>>
        /\ get_width(png.chunks[1]) = {[outcome |-> "value", value |-> args.width]}
        /\ get_height(png.chunks[1]) = {[outcome |-> "value", value |-> args.height]}
        /\ (query.op = "get_width" /\ query.arg = 1) => query.result.value = args.width
        /\ (query.op = "get_height" /\ query.arg = 1) => query.result.value = args.height

C17_Witness ==
    /\ origin = "assemble"
    /\ pc = "queried"
    /\ query.op = "get_width"
    /\ query.arg = 1
    /\ args.width = <<1, 2>>
    /\ args.height = <<0, 50>>
    /\ query.result = [outcome |-> "value", value |-> <<1, 2>>]
    /\ png.chunks[1].data = <<0, 1, 0, 2, 0, 0, 0, 50, 8, 2, 0, 0, 0>>

\* C18: a payload byte count that does not fit in 32 bits, as it is or with
\* the 4 of the type field added, gives an error: the length is never
\* truncated or wrapped modulo 2^32.
C18_LengthFitsOrIsRejected ==
    /\ (query.op = "len_as_u32" /\ (query.arg[1] # 0 \/ query.arg[2] # 0)) =>
           query.result.outcome # "value"
    /\ (query.op = "idat_crc_range_len" /\ query.arg[1] = 65535 /\ query.arg[2] >= 65532) =>
           query.result.outcome # "value"

\* the IHDR chunk unfiltering reads is the first chunk, with 13 data bytes or
\* more, this color type, and a width and height within the model's bounds
UnfilterHeader(color_type) ==
    /\ query.op = "remove_filter_bytes_from_inflated_data"
    /\ query.pre.chunks # <<>>
    /\ query.pre.chunks[1].type_name = <<73, 72, 68, 82>>
    /\ Len(query.pre.chunks[1].data) >= 13
    /\ query.pre.chunks[1].data[10] = color_type
    /\ \A i \in {1, 2, 3, 5, 6, 7} : query.pre.chunks[1].data[i] = 0
    /\ query.pre.chunks[1].data[4] <= MaxWidth
    /\ query.pre.chunks[1].data[8] <= MaxHeight

HeaderWidth == query.pre.chunks[1].data[4]
HeaderHeight == query.pre.chunks[1].data[8]

\* byte i (from 1) of the rows of buf with the first byte of each row of
\* n + 1 bytes left out
RowTailByte(buf, n, i) == buf[((i - 1) \div n) * (n + 1) + ((i - 1) % n) + 2]

\* C19: for color type 2, width W, height H and a buffer of H rows of a
\* filter byte 0x00 and W (r,g,b) triples, unfiltering returns exactly
\* H*W*3 bytes: all triples in row-major order, components in order.
C19_UnfilterTruecolor ==
    ( /\ UnfilterHeader(2)
      /\ Len(query.arg) = HeaderHeight * (3 * HeaderWidth + 1)
      /\ \A r \in 0..(HeaderHeight - 1) : query.arg[r * (3 * HeaderWidth + 1) + 1] = 0 ) =>
        /\ query.result.outcome = "value"
        /\ query.result.value.size = <<0, HeaderHeight * HeaderWidth * 3>>
        /\ ~query.result.value.data.null
        /\ query.result.value.data.bytes =
             [i \in 1..(HeaderHeight * HeaderWidth * 3) |->
                 RowTailByte(query.arg, 3 * HeaderWidth, i)]

C19_Witness ==
    /\ UnfilterHeader(2)
    /\ HeaderWidth = 2
    /\ HeaderHeight = 2
    /\ Len(query.arg) = 14
    /\ query.arg[1] = 0
    /\ query.arg[8] = 0
    /\ query.result.outcome = "value"
    /\ query.result.value.data.bytes
         = SubSeq(query.arg, 2, 7) \o SubSeq(query.arg, 9, 14)

\* C20: for color type 3, width W >= 1, height H >= 1 and a buffer of at
\* least H*(W+1) bytes, unfiltering completes and returns exactly W*H bytes:
\* each row's W palette indices without its filter byte, in row order.
C20_UnfilterIndexed ==
    ( /\ UnfilterHeader(3)
      /\ HeaderWidth >= 1
      /\ HeaderHeight >= 1
      /\ Len(query.arg) >= HeaderHeight * (HeaderWidth + 1) ) =>
        /\ query.result.outcome = "value"
        /\ query.result.value.size = <<0, HeaderHeight * HeaderWidth>>
        /\ query.result.value.data.bytes =
             [i \in 1..(HeaderHeight * HeaderWidth) |->
                 RowTailByte(query.arg, HeaderWidth, i)]

\* C21: when the container has no IHDR chunk, or its IHDR color type is
\* neither 2 nor 3, unfiltering returns the empty result (size 0, null data)
\* and does not panic.
C21_UnsupportedGivesEmptyResult ==
    ( /\ query.op = "remove_filter_bytes_from_inflated_data"
      /\ \/ PositionsOfType(query.pre.chunks, <<73, 72, 68, 82>>) = {}
         \/ \E k \in PositionsOfType(query.pre.chunks, <<73, 72, 68, 82>>) :
              /\ \A j \in PositionsOfType(query.pre.chunks, <<73, 72, 68, 82>>) : k <= j
              /\ Len(query.pre.chunks[k].data) >= 10
              /\ query.pre.chunks[k].data[10] \notin {2, 3} ) =>
        /\ query.result.outcome = "value"
        /\ query.result.value.size = <<0, 0>>
        /\ query.result.value.data.null

\* the rows of the header's image that do not fit into the buffer
OverrunRows(bytes_per_pixel) ==
    { r \in 0..(HeaderHeight - 1) :
        (r + 1) * (HeaderWidth * bytes_per_pixel + 1) > Len(query.arg) }

FirstOverrunRow(bytes_per_pixel) ==
    CHOOSE r \in OverrunRows(bytes_per_pixel) :
        \A q \in OverrunRows(bytes_per_pixel) : r <= q

C23_NoAbortOnMalformedInput ==
    ( /\ origin = "parse"
      /\ cut = 0
      /\ Returned
      /\ \E i \in 1..Len(png.chunks) : ~IsUtf8(png.chunks[i].type_name) ) =>
        /\ query.op \in { "get_chunk_by_type", "get_all_idat_data_as_vec",
                          "match_color_type_and_bit_depth" } =>
             query.result.outcome \in {"value", "Some", "None"}
        /\ saveResult \in {"none", "Ok", "Err"}

\* C24: save_to_file either leaves the complete serialized PNG at the path
\* or, when a step fails, leaves there what the path held before the call
\* (here: no file), never a partially written file.
C24_AtomicPersistence ==
    pc = "saved" =>
        IF saveResult = "Ok"
        THEN file = save_to_file(png, Len(SaveWrites(png)) + 1, NoFile).file
        ELSE file = NoFile

\* C25: the structure returned by get_all_idat_data_as_DeflatedData has size
\* equal to the total IDAT byte count and a data pointer to a live buffer
\* holding the concatenated IDAT bytes, and dropping it neither uses freed
\* memory nor frees a buffer a second time.
C25_SingleOwnership ==
    /\ (query.op = "get_all_idat_data_as_DeflatedData"
          /\ query.result.outcome = "value") =>
          /\ query.result.value.size = <<0, Len(ConcatIdat(query.pre.chunks))>>
          /\ query.result.value.data = PtrTo(ConcatIdat(query.pre.chunks))
    /\ query.op = "drop" => query.result.outcome = "value"

\* the model's buffers that differ from buf at most in the leading byte of
\* rows below height
FilterByteVariants(buf, stride, height) ==
    { b \in InflatedBuffers :
        /\ Len(b) = Len(buf)
        /\ \A k \in 1..Len(buf) :
             b[k] # buf[k] => ((k - 1) % stride = 0 /\ (k - 1) \div stride < height) }

\* the property below for one number of bytes per pixel
FilterByteIgnored(bytes_per_pixel) ==
    /\ \A b \in FilterByteVariants(query.arg, HeaderWidth * bytes_per_pixel + 1,
                                   HeaderHeight) :
          /\ query.result \in remove_filter_bytes_from_inflated_data(query.pre, b)
          /\ remove_filter_bytes_from_inflated_data(query.pre, b)
               = remove_filter_bytes_from_inflated_data(query.pre, query.arg)
    /\ (query.result.outcome = "value" /\ ~query.result.value.data.null) =>
          query.result.value.data.bytes =
             [i \in 1..(HeaderHeight * HeaderWidth * bytes_per_pixel) |->
                 RowTailByte(query.arg, HeaderWidth * bytes_per_pixel, i)]

\* C26: two decompressed buffers that differ only in the filter bytes of
\* their scanlines give the same result with the same IHDR, and the bytes
\* returned are each row's bytes after the filter byte, verbatim, whatever
\* the filter byte is.
C26_FilterByteIgnored ==
    /\ UnfilterHeader(2) => FilterByteIgnored(3)
    /\ UnfilterHeader(3) => FilterByteIgnored(1)

C26_Witness ==
    /\ UnfilterHeader(2)
    /\ HeaderWidth = 1
    /\ HeaderHeight = 2
    /\ Len(query.arg) = 8
    /\ query.arg[1] = 1
    /\ query.arg[5] = 1
    /\ \E b \in FilterByteVariants(query.arg, 4, 2) : b[1] = 0 /\ b[5] = 0
    /\ query.result.outcome = "value"
    /\ query.result.value.data.bytes = SubSeq(query.arg, 2, 4) \o SubSeq(query.arg, 6, 8)

\* the buffer holds height rows of width pixels and a color has 3 components
ModifyInputsValid ==
    /\ query.op = "modify_png_pixel_data"
    /\ Len(query.arg.data) >= 3
    /\ Len(query.arg.pixels) >= query.arg.height * (3 * query.arg.width + 1)

\* C27: for color_type 2 and bit_depth 8, every pixel of every row r < height
\* whose filter byte (offset r*(3*width+1)) is 0 becomes (data[0], data[1],
\* data[2]); filter bytes, rows with another filter byte and bytes past
\* height*(3*width+1) stay; for any other color_type or bit_depth the buffer
\* stays as it was; the pointer passed in is the one returned.
C27_ModifyFrameAndEffect ==
    /\ (ModifyInputsValid /\ query.arg.color_type = 2 /\ query.arg.bit_depth = 8) =>
          /\ query.result.outcome = "value"
          /\ query.result.returned = "pixels"
          /\ ~query.result.out_of_bounds
          /\ query.result.pixels =
               [k \in 1..Len(query.arg.pixels) |->
                  IF /\ k - 1 < query.arg.height * (3 * query.arg.width + 1)
                     /\ (k - 1) % (3 * query.arg.width + 1) # 0
                     /\ query.arg.pixels[k - ((k - 1) % (3 * query.arg.width + 1))] = 0
                  THEN query.arg.data[((((k - 1) % (3 * query.arg.width + 1)) - 1) % 3) + 1]
                  ELSE query.arg.pixels[k]]
    /\ (query.op = "modify_png_pixel_data"
          /\ ~(query.arg.color_type = 2 /\ query.arg.bit_depth = 8)) =>
          /\ query.result.outcome = "value"
          /\ query.result.returned = "pixels"
          /\ query.result.pixels = query.arg.pixels

C27_Witness ==
    /\ ModifyInputsValid
    /\ query.arg.color_type = 2
    /\ query.arg.bit_depth = 8
    /\ query.arg.width = 2
    /\ query.arg.height = 2
    /\ Len(query.arg.pixels) = 15
    /\ query.arg.pixels[1] = 0
    /\ query.arg.pixels[8] = 1
    /\ query.result.outcome = "value"
    /\ query.result.pixels =
         <<0, 200, 100, 50, 200, 100, 50>> \o SubSeq(query.arg.pixels, 8, 15)

\* the first IHDR chunk of the container the call was made on
FirstIhdr ==
    query.pre.chunks[
        CHOOSE k \in PositionsOfType(query.pre.chunks, <<73, 72, 68, 82>>) :
            \A j \in PositionsOfType(query.pre.chunks, <<73, 72, 68, 82>>) : k <= j]

\* C28: match_color_type_and_bit_depth returns true exactly when the
\* container has an IHDR chunk whose color type byte and bit depth byte
\* equal the arguments, and false when a value differs or the IHDR chunk is
\* missing or invalid (fewer than 10 data bytes).
C28_MatchColorTypeAndBitDepth ==
    query.op = "match_color_type_and_bit_depth" =>
        /\ query.result.outcome = "value"
        /\ query.result.value =
             ( /\ PositionsOfType(query.pre.chunks, <<73, 72, 68, 82>>) # {}
               /\ Len(FirstIhdr.data) >= 10
               /\ FirstIhdr.data[10] = query.arg[1]
               /\ FirstIhdr.data[9] = query.arg[2] )

\* 8 plus the sum of 12 + declared length over the first k chunks
RECURSIVE DeclaredEnd(_, _)
DeclaredEnd(chunks, k) ==
    IF k = 0 THEN 8
    ELSE DeclaredEnd(chunks, k - 1) + 12 + FieldValue(chunks[k].length)

\* the four fields of a chunk one after the other
FieldsOf(chunk) == chunk.length \o chunk.type_name \o chunk.data \o chunk.crc

\* Png::new is in its loop, or has left it by its condition
InOrAfterLoop ==
    \/ pc = "new_loop"
    \/ origin = "parse" /\ Returned /\ Len(input) >= 8

\* C29: in Png::new on a buffer of at least 8 bytes, at the start of every
\* loop iteration (and when the loop ends) the offset is 8 plus the sum of
\* 12 + declared length over the chunks appended so far, these chunks are
\* the chunks framed in the buffer bytes [8, offset) in file order, and the
\* offset has grown by at least 12 per chunk, so there are at most
\* (len - 8) / 12 iterations.
C29_ParseLoopAccounting ==
    InOrAfterLoop =>
        /\ index = DeclaredEnd(head, Len(head))
        /\ index <= Len(input)
        /\ \A k \in 1..Len(head) :
             /\ Len(head[k].data) = FieldValue(head[k].length)
             /\ FieldsOf(head[k])
                  = SubSeq(input, DeclaredEnd(head, k - 1) + 1, DeclaredEnd(head, k))
        /\ index >= 8 + 12 * Len(head)
        /\ Len(head) <= (Len(input) - 8) \div 12

C29_Witness ==
    /\ pc = "new_loop"
    /\ index < Len(input)
    /\ Len(head) = 2
    /\ head[1].data # <<>>
    /\ index = 8 + 12 + Len(head[1].data) + 12 + Len(head[2].data)

\* the operations of the claim that answer through query
ReadOperations ==
    { "get_signature", "get_chunks", "get_chunk_by_type", "get_all_idat_data_as_vec",
      "match_color_type_and_bit_depth", "traverse",
      "remove_filter_bytes_from_inflated_data" }

====
